---------------------------- MODULE Spec2Model ----------------------------
(***************************************************************************)
(* A model of the transcript scraper in src/main.rs: the Chunk tree and    *)
(* its simplification, the page combiner, the section locator and the two  *)
(* record extractors (transfer credits, semester coursework).              *)
(*                                                                         *)
(* A Rust String is modelled as the sequence of its characters, each a     *)
(* one-character TLA+ string, so that trim, starts_with, ends_with,        *)
(* contains and the two splits are computed and not assumed.  Indices are  *)
(* kept 0-based as in the source; At(s, i) reads s[i].  A panic (failed    *)
(* assert!, index out of bounds, usize underflow, inverted slice range) is *)
(* the status "panic"; usize underflow panics in a debug build and wraps   *)
(* to a huge index that panics on the following access in a release build, *)
(* so both builds give the same status.                                    *)
(***************************************************************************)
EXTENDS Integers, Sequences, FiniteSets, TLC

VARIABLES simp, comb, xfer, sem, proc

vars == <<simp, comb, xfer, sem, proc>>

Idle == [pc |-> "idle"]

\* ------------------------------------------------------------------ bounds

\* Nesting depth of the Chunk trees given to simplify.
MaxDepth == 2

\* Pages given to the page combiner, and the elements of a page that come
\* before the element the footer is looked for at.
MaxPages == 2
MaxBody == 1

\* Row groups in the transfer section given to process_transfers.
MaxRows == 3

\* Elements after the "Program:" leaf given to process_semesters.
MaxElems == 4

\* Elements of a combined sequence after its opening, given to
\* process_chunks.
MaxTail == 5

\* --------------------------------------------------------- sequences, strings

At(s, i) == s[i + 1]

SeqsUpTo(S, n) == UNION { [1..k -> S] : k \in 0..n }

RECURSIVE Flatten(_)
Flatten(ss) ==
    IF ss = <<>> THEN <<>> ELSE Head(ss) \o Flatten(Tail(ss))

\* Vec::remove(i)
RemoveAt(s, i) == SubSeq(s, 1, i) \o SubSeq(s, i + 2, Len(s))

IsWhite(ch) == ch = " "

RECURSIVE trim_start(_)
trim_start(s) ==
    IF s # <<>> /\ IsWhite(Head(s)) THEN trim_start(Tail(s)) ELSE s

RECURSIVE trim_end(_)
trim_end(s) ==
    IF s # <<>> /\ IsWhite(s[Len(s)])
    THEN trim_end(SubSeq(s, 1, Len(s) - 1))
    ELSE s

\* str::trim
trim(s) == trim_end(trim_start(s))

\* str::starts_with
starts_with(s, p) == Len(p) <= Len(s) /\ SubSeq(s, 1, Len(p)) = p

\* str::ends_with
ends_with(s, p) ==
    Len(p) <= Len(s) /\ SubSeq(s, Len(s) - Len(p) + 1, Len(s)) = p

\* str::contains
contains(s, p) ==
    \E k \in 0..(Len(s) - Len(p)) : SubSeq(s, k + 1, k + Len(p)) = p

\* s.split("-").count(): one more than the number of separators
split_count(s, ch) == Cardinality({k \in 1..Len(s) : s[k] = ch}) + 1

\* str::split_ascii_whitespace, collected: the maximal runs of non-blanks
RECURSIVE split_ascii_whitespace(_)
split_ascii_whitespace(s) ==
    LET t == trim_start(s)
        n == IF \E k \in 1..Len(t) : IsWhite(t[k])
             THEN (CHOOSE k \in 1..Len(t) :
                      IsWhite(t[k]) /\ \A j \in 1..(k - 1) : ~IsWhite(t[j])) - 1
             ELSE Len(t)
    IN  IF t = <<>> THEN <<>>
        ELSE <<SubSeq(t, 1, n)>> \o split_ascii_whitespace(SubSeq(t, n + 1, Len(t)))

\* ------------------------------------------------------------------- Chunk

\* enum Chunk { Chunks(Vec<Chunk>), String(String) }
Leaf(str) == [tag |-> "String", s |-> str, v |-> <<>>]
Group(children) == [tag |-> "Chunks", s |-> <<>>, v |-> children]

is_chunks(c) == c.tag = "Chunks"

IsLeaf(c) == c.tag = "String"

\* get_contained: Some(v) for a group, None for a leaf (callers test is_chunks)
get_contained(c) == c.v

\* get_string: Some(s) for a leaf, None for a group (callers test IsLeaf)
get_string(c) == c.s

RECURSIVE simplify(_)

\* A simplification that collapses a singleton group to its child as it
\* stands, without simplifying the child.
simplify_shallow(c) ==
    IF IsLeaf(c) THEN Leaf(trim(c.s))
    ELSE IF Len(c.v) = 1 THEN c.v[1]
    ELSE Group([k \in 1..Len(c.v) |-> simplify(c.v[k])])

simplify(c) ==
    IF IsLeaf(c) THEN Leaf(trim(c.s))
    ELSE LET fresh == [k \in 1..Len(c.v) |-> simplify(c.v[k])]
         IN  IF Len(fresh) = 1 THEN fresh[1] ELSE Group(fresh)

\* The leaf strings the trees below are built from: trimming changes the
\* first and the third, and the third trims to the empty string.
SimplifyLeaves == { Leaf(<<" ","a">>), Leaf(<<"a">>), Leaf(<<" ">>) }

\* Chunk trees of depth at most d whose groups hold 0, 1 or 2 children.
RECURSIVE ChunkTrees(_)
ChunkTrees(d) ==
    IF d = 0 THEN SimplifyLeaves
    ELSE LET sub == ChunkTrees(d - 1)
         IN  SimplifyLeaves
               \cup { Group(<<>>) }
               \cup { Group(<<a>>) : a \in sub }
               \cup { Group(<<a, b>>) : a, b \in sub }

SimplifyInit ==
    /\ simp \in { [pc |-> "start", c |-> c, once |-> c, twice |-> c] :
                    c \in ChunkTrees(MaxDepth) }
    /\ comb = Idle /\ xfer = Idle /\ sem = Idle /\ proc = Idle

\* main: page.into_iter().map(Chunk::simplify)
SimplifyOnce ==
    /\ simp.pc = "start"
    /\ simp' = [simp EXCEPT !.pc = "once", !.once = simplify(simp.c)]
    /\ UNCHANGED <<comb, xfer, sem, proc>>

\* a second application to the simplified value
SimplifyTwice ==
    /\ simp.pc = "once"
    /\ simp' = [simp EXCEPT !.pc = "twice", !.twice = simplify(simp.once)]
    /\ UNCHANGED <<comb, xfer, sem, proc>>

SimplifyNext == SimplifyOnce \/ SimplifyTwice

SpecSimplify == SimplifyInit /\ [][SimplifyNext]_vars

\* Depth of a chunk tree and whether it holds a singleton group inside a
\* singleton group.
RECURSIVE NestedSingleton(_)
NestedSingleton(c) ==
    /\ is_chunks(c)
    /\ \/ Len(c.v) = 1 /\ is_chunks(c.v[1]) /\ Len(c.v[1].v) = 1
       \/ \E k \in 1..Len(c.v) : NestedSingleton(c.v[k])

\* C8: simplification is idempotent: simplifying a simplified chunk returns
\* it unchanged, for every chunk, empty and nested singleton groups included.
C8_Idempotent ==
    simp.pc = "twice" => simp.twice = simp.once

\* C8 witness: a singleton group nested in a singleton group, holding a leaf
\* that trimming changes, has been simplified twice.
C8_Witness ==
    /\ simp.pc = "twice"
    /\ NestedSingleton(simp.c)
    /\ simp.once # simp.c
    /\ simp.once = Leaf(<<"a">>)

\* ----------------------------------------------------------- page combiner

FOOTER_BANNER == <<"S"," ","I"," ","M"," ","O"," ","N"," "," "," ","F"," ","R"," ","A"," ","S"," ","E"," ","R"," "," "," ","U"," ","N"," ","I"," ","V"," ","E"," ","R"," ","S"," ","I"," ","T"," ","Y">>

\* "The footer starts 7 indices before the end of every page"
FOOTER_OFFSET == 7

BodyLeaf == Leaf(<<"a">>)
TailLeaf == Leaf(<<"t">>)
FooterGroup == Group(<<Leaf(FOOTER_BANNER), Leaf(<<"P","a","g","e"," ","1">>)>>)
OtherGroup == Group(<<Leaf(<<"a">>), Leaf(FOOTER_BANNER)>>)
EmptyGroup == Group(<<>>)
BannerLeaf == Leaf(FOOTER_BANNER)

\* What may stand FOOTER_OFFSET before the end of a page.
FooterCandidates == {FooterGroup, OtherGroup, EmptyGroup, BannerLeaf, BodyLeaf}

\* A page: some body, the candidate, and the six elements after it; or a
\* page too short to have an element FOOTER_OFFSET before its end.
PageSet ==
    { b \o <<k>> \o [j \in 1..(FOOTER_OFFSET - 1) |-> TailLeaf] :
        b \in SeqsUpTo({BodyLeaf, FooterGroup}, MaxBody), k \in FooterCandidates }
      \cup { [j \in 1..n |-> TailLeaf] : n \in {0, 3, FOOTER_OFFSET - 1} }

\* One pass of the loop body on a page: "panic" when page.len() - 7
\* underflows or v[0] does not exist, "err" when the match falls to the
\* wildcard arm, "ok" when the guard holds.
footer_check(page) ==
    IF Len(page) < FOOTER_OFFSET THEN "panic"
    ELSE LET e == At(page, Len(page) - FOOTER_OFFSET)
         IN  IF is_chunks(e)
             THEN IF Len(e.v) = 0 THEN "panic"
                  ELSE IF At(e.v, 0) = Leaf(FOOTER_BANNER) THEN "ok" ELSE "err"
             ELSE "err"

\* A truncation one element too late, which keeps the footer group.
truncate_late(page) == SubSeq(page, 1, Len(page) - FOOTER_OFFSET + 1)

\* page.truncate(footer_start)
truncate_footer(page) == SubSeq(page, 1, Len(page) - FOOTER_OFFSET)

CombineInit ==
    /\ comb \in { [pc |-> "start", input |-> ps, pages |-> ps, k |-> 0,
                   status |-> "run", out |-> <<>>] :
                    ps \in SeqsUpTo(PageSet, MaxPages) }
    /\ simp = Idle /\ xfer = Idle /\ sem = Idle /\ proc = Idle

\* let num_pages = page_chunks.len(); &mut page_chunks[0..num_pages - 1]
CombineStart ==
    /\ comb.pc = "start"
    /\ comb' = IF Len(comb.pages) = 0
               THEN [comb EXCEPT !.pc = "done", !.status = "panic"]
               ELSE [comb EXCEPT !.pc = "loop"]
    /\ UNCHANGED <<simp, xfer, sem, proc>>

\* one iteration of the for loop over the pages but the last
CombinePage ==
    /\ comb.pc = "loop"
    /\ comb.k < Len(comb.pages) - 1
    /\ LET page == At(comb.pages, comb.k)
           r == footer_check(page)
       IN  comb' = IF r = "ok"
                   THEN [comb EXCEPT !.k = comb.k + 1,
                                     !.pages[comb.k + 1] = truncate_footer(page)]
                   ELSE [comb EXCEPT !.pc = "done", !.status = r]
    /\ UNCHANGED <<simp, xfer, sem, proc>>

\* Ok(page_chunks.into_iter().flatten().collect())
CombineFinish ==
    /\ comb.pc = "loop"
    /\ comb.k >= Len(comb.pages) - 1
    /\ comb' = [comb EXCEPT !.pc = "done", !.status = "ok",
                            !.out = Flatten(comb.pages)]
    /\ UNCHANGED <<simp, xfer, sem, proc>>

CombineNext == CombineStart \/ CombinePage \/ CombineFinish

SpecCombine == CombineInit /\ [][CombineNext]_vars

\* The page has, FOOTER_OFFSET before its end, a group whose first child is
\* the footer-banner leaf.
HasFooter(page) ==
    /\ Len(page) >= FOOTER_OFFSET
    /\ LET e == page[Len(page) - FOOTER_OFFSET + 1]
       IN  /\ e.tag = "Chunks"
           /\ Len(e.v) >= 1
           /\ e.v[1] = Leaf(FOOTER_BANNER)

\* The elements of the pages in page order, each page but the last without
\* its last FOOTER_OFFSET elements.
ExpectedCombined(ps) ==
    LET n == Len(ps)
        Kept(p) == IF p < n THEN Len(ps[p]) - FOOTER_OFFSET ELSE Len(ps[p])
        Idx == UNION { { <<p, j>> : j \in 1..Kept(p) } : p \in 1..n }
        Before(a, b) == a[1] < b[1] \/ (a[1] = b[1] /\ a[2] < b[2])
        Rank(a) == Cardinality({ b \in Idx : Before(b, a) }) + 1
    IN  [r \in 1..Cardinality(Idx) |->
            LET a == CHOOSE a \in Idx : Rank(a) = r IN ps[a[1]][a[2]]]

\* C3 (as claimed): whenever some page but the last lacks the footer group
\* FOOTER_OFFSET before its end (a leaf there, a group with another or no
\* first child, or a page shorter than FOOTER_OFFSET), the combiner returns
\* the error value.
C3_MissingFooterReturnsErr ==
    (/\ comb.pc = "done"
     /\ \E p \in 1..(Len(comb.input) - 1) : ~HasFooter(comb.input[p]))
        => comb.status = "err"

\* C4: when there is a last page and every page before it has the footer
\* group FOOTER_OFFSET before its end, the combiner succeeds and returns, in
\* page order, each earlier page cut to its first len-7 elements followed by
\* the whole last page.
C4_CombineSuccess ==
    (/\ comb.pc = "done"
     /\ Len(comb.input) >= 1
     /\ \A p \in 1..(Len(comb.input) - 1) : HasFooter(comb.input[p]))
        => /\ comb.status = "ok"
           /\ comb.out = ExpectedCombined(comb.input)

\* C4 witness: two pages combined, the first with body before its footer, the
\* last one holding a footer group of its own at the same offset, kept.
C4_Witness ==
    /\ comb.pc = "done" /\ comb.status = "ok"
    /\ Len(comb.input) = 2
    /\ Len(comb.input[1]) > FOOTER_OFFSET
    /\ HasFooter(comb.input[2])
    /\ Len(comb.out) = Len(comb.input[1]) - FOOTER_OFFSET + Len(comb.input[2])

\* ------------------------------------------------- column filters and grades

QUALIFIERS == { <<"W">>, <<"Q">>, <<"O","n","l","i","n","e">> }
BREADTH_TAGS == { <<"B","-","S","c","i">>, <<"B","-","H","u","m">>, <<"B","-","S","o","c">> }

matches_breadth(s) == \E b \in BREADTH_TAGS : contains(s, b)

is_qualifier(s) == s \in QUALIFIERS

is_perm_dt(s) == s = <<"P","e","r","m",".","D","t",":">> \/ split_count(s, "-") = 3

POSSIBLE_GRADES ==
    { <<"A","+">>, <<"A">>, <<"A","-">>, <<"B","+">>, <<"B">>, <<"B","-">>, <<"C","+">>, <<"C">>, <<"C","-">>, <<"D">>, <<"P">>,
      <<"D","E">>, <<"G","N">>, <<"I","P">>,
      <<"F">>, <<"F","D">>, <<"N">>,
      <<"A","E">>, <<"A","U">>, <<"C","C">>, <<"C","F">>, <<"C","N">>, <<"C","R">>, <<"F","X">>, <<"N","C">>, <<"W","D">>, <<"W","E">>, <<"T","R">> }

\* struct Course
Course(subject, id, grade) == [subject |-> subject, id |-> id, grade |-> grade]

\* Option<String>
Some(x) == [some |-> TRUE, val |-> x]
None == [some |-> FALSE, val |-> <<>>]

\* struct Transfer
Transfer(course, school) == [course |-> course, school |-> school]

\* iter().filter_map(|c| c.get_string()), collected
LeafStrings(cs) ==
    LET leaves == SelectSeq(cs, IsLeaf)
    IN  [k \in 1..Len(leaves) |-> get_string(leaves[k])]

\* ------------------------------------------------------- transfer extractor

TRANSFER_MARKER == <<"T","R","A","N","S","F","E","R"," ","C","O","U","R","S","E","S">>
PAGE_BREAK_TAG == <<"S","F","U","S","R">>

KeepTransferColumn(s) == ~is_qualifier(s) /\ ~matches_breadth(s)

\* The chunks that are groups, each reduced to its leaf strings without the
\* qualifier and breadth columns.
transfer_sources(chunks) ==
    LET groups == SelectSeq(chunks, is_chunks)
    IN  [k \in 1..Len(groups) |->
            SelectSeq(LeafStrings(get_contained(groups[k])), KeepTransferColumn)]

\* sources[0].insert(0, "")
insert_spacer(sources) ==
    [sources EXCEPT ![1] = <<<<>>>> \o sources[1]]

\* A merge that appends the following row but leaves it in the sequence.
merge_rows_keep_next(sources, i) ==
    LET row == At(sources, i)
    IN  [sources EXCEPT ![i + 1] =
            SubSeq(row, 1, Len(row) - 1) \o At(sources, i + 1)]

\* sources[i].remove(position); let next = sources.remove(i + 1);
\* sources[i].extend_from_slice(&next)
merge_rows(sources, i) ==
    LET row == At(sources, i)
        merged == SubSeq(row, 1, Len(row) - 1) \o At(sources, i + 1)
    IN  RemoveAt([sources EXCEPT ![i + 1] = merged], i + 1)

\* The body of the page-break loop for row i: panics when the row is empty
\* (sources[i].len() - 1), merges when its last element starts with the tag.
merge_step(sources, i) ==
    LET row == At(sources, i)
    IN  IF Len(row) = 0 THEN [status |-> "panic", sources |-> sources]
        ELSE IF starts_with(At(row, Len(row) - 1), PAGE_BREAK_TAG)
        THEN [status |-> "ok", sources |-> merge_rows(sources, i)]
        ELSE [status |-> "ok", sources |-> sources]

\* usize::from(sources[i].len() == 10) with the offset never applied.
course_offset_zero(row) == 0

\* usize::from(sources[i].len() == 10)
course_offset(row) == IF Len(row) = 10 THEN 1 ELSE 0

\* A grade check that lets every grade through.
grade_ok_any(g) == TRUE

\* POSSIBLE_GRADES.contains(..)
grade_ok(g) == g \in POSSIBLE_GRADES

\* The body of the extraction loop for row i: the school from the following
\* row, the course from the row; panics when the grade column does not
\* exist or the assert! on the grade fails.
extract_step(sources, i) ==
    LET row == At(sources, i)
        nxt == At(sources, i + 1)
        school == IF Len(nxt) \in {10, 2} THEN Some(At(nxt, 1)) ELSE None
        off == course_offset(row)
    IN  IF Len(row) <= off + 6 THEN [status |-> "panic", transfer |-> None]
        ELSE IF ~grade_ok(At(row, off + 6))
        THEN [status |-> "panic", transfer |-> None]
        ELSE [status |-> "ok",
              transfer |-> Transfer(Course(At(row, off + 1), At(row, off + 2),
                                           At(row, off + 6)), school)]

\* Rows of the transfer section as they are drawn (before the filters).
Units == <<"3">>
TermTag == <<"1","2","3","7">>
Subject == <<"E","N","G","R">>
CourseId == <<"1","0","0">>
School == <<"A","c","m","e"," ","C","o","l","l","e","g","e">>

RawCourse(g) == <<TermTag, Subject, CourseId, Units, Units, Units, g, Units, Units>>
RawSchool10 ==
    <<<<>>, School, Units, Units, Units, Units, Units, Units, Units, Units>>

TransferRowTexts ==
    { RawCourse(<<"B","+">>),
      RawCourse(<<"Z","Z">>),
      <<<<>>>> \o RawCourse(<<"B","+">>),
      <<Subject, CourseId, Units, Units, Units, Units, <<"B","+">>, Units, Units>>,
      RawSchool10,
      <<<<>>, School>>,
      <<TermTag, Subject, CourseId, Units, <<"S","F","U","S","R","0","1">>>>,
      <<Units, Units, <<"B","+">>, Units, Units>>,
      <<TermTag, Subject, CourseId, <<"W">>, <<"B","-","S","c","i">>, Units, Units, Units, <<"B","+">>,
        <<"Q">>, Units, Units>>,
      <<>> }

TransferRowGroups ==
    { Group([k \in 1..Len(r) |-> Leaf(r[k])]) : r \in TransferRowTexts }
      \cup { Group(<<Leaf(<<>>), Group(<<>>), Leaf(School)>>) }

\* chunks[i..program_index]: the marker leaf, then the rows
TransferInputs ==
    { <<Leaf(TRANSFER_MARKER)>> \o rows : rows \in SeqsUpTo(TransferRowGroups, MaxRows) }

TransfersInit ==
    /\ xfer \in { [pc |-> "start", chunks |-> cs, rows0 |-> <<>>, sources |-> <<>>,
                   i |-> 0, transfers |-> <<>>, status |-> "run"] :
                    cs \in TransferInputs }
    /\ simp = Idle /\ comb = Idle /\ sem = Idle /\ proc = Idle

\* lines 237-254: the rows, and the spacer put before the first row
\* (sources[0] panics when there is no row)
TransfersReduce ==
    /\ xfer.pc = "start"
    /\ LET src == transfer_sources(xfer.chunks)
       IN  xfer' = IF Len(src) = 0
                   THEN [xfer EXCEPT !.pc = "done", !.status = "panic"]
                   ELSE [xfer EXCEPT !.pc = "merge", !.i = 0,
                                     !.sources = insert_spacer(src),
                                     !.rows0 = insert_spacer(src)]
    /\ UNCHANGED <<simp, comb, sem, proc>>

\* one iteration of the page-break loop
TransfersMerge ==
    /\ xfer.pc = "merge"
    /\ xfer.i < Len(xfer.sources) - 1
    /\ LET r == merge_step(xfer.sources, xfer.i)
       IN  xfer' = IF r.status = "panic"
                   THEN [xfer EXCEPT !.pc = "done", !.status = "panic"]
                   ELSE [xfer EXCEPT !.sources = r.sources, !.i = xfer.i + 1]
    /\ UNCHANGED <<simp, comb, sem, proc>>

\* the page-break loop ends; i = 0
TransfersMergeEnd ==
    /\ xfer.pc = "merge"
    /\ xfer.i >= Len(xfer.sources) - 1
    /\ xfer' = [xfer EXCEPT !.pc = "extract", !.i = 0]
    /\ UNCHANGED <<simp, comb, sem, proc>>

\* one iteration of the extraction loop
TransfersExtract ==
    /\ xfer.pc = "extract"
    /\ xfer.i < Len(xfer.sources) - 1
    /\ LET r == extract_step(xfer.sources, xfer.i)
       IN  xfer' = IF r.status = "panic"
                   THEN [xfer EXCEPT !.pc = "done", !.status = "panic"]
                   ELSE [xfer EXCEPT !.transfers = Append(xfer.transfers, r.transfer),
                                     !.i = xfer.i + 1]
    /\ UNCHANGED <<simp, comb, sem, proc>>

\* the extraction loop ends; transfers is returned
TransfersReturn ==
    /\ xfer.pc = "extract"
    /\ xfer.i >= Len(xfer.sources) - 1
    /\ xfer' = [xfer EXCEPT !.pc = "done", !.status = "ok"]
    /\ UNCHANGED <<simp, comb, sem, proc>>

TransfersNext ==
    \/ TransfersReduce
    \/ TransfersMerge
    \/ TransfersMergeEnd
    \/ TransfersExtract
    \/ TransfersReturn

SpecTransfers == TransfersInit /\ [][TransfersNext]_vars

\* process_transfers as a function of its input.
RECURSIVE merge_sweep(_, _)
merge_sweep(sources, i) ==
    IF i < Len(sources) - 1
    THEN LET r == merge_step(sources, i)
         IN  IF r.status = "panic" THEN r ELSE merge_sweep(r.sources, i + 1)
    ELSE [status |-> "ok", sources |-> sources]

RECURSIVE extract_sweep(_, _, _)
extract_sweep(sources, i, acc) ==
    IF i < Len(sources) - 1
    THEN LET r == extract_step(sources, i)
         IN  IF r.status = "panic" THEN [status |-> "panic", transfers |-> <<>>]
             ELSE extract_sweep(sources, i + 1, Append(acc, r.transfer))
    ELSE [status |-> "ok", transfers |-> acc]

process_transfers(chunks) ==
    LET src == transfer_sources(chunks)
    IN  IF Len(src) = 0 THEN [status |-> "panic", transfers |-> <<>>]
        ELSE LET m == merge_sweep(insert_spacer(src), 0)
             IN  IF m.status = "panic" THEN [status |-> "panic", transfers |-> <<>>]
                 ELSE extract_sweep(m.sources, 0, <<>>)

\* ------------------------------------------------------- semester extractor

PROGRAM_MARKER == <<"P","r","o","g","r","a","m",":">>
TERMS == { <<"S","p","r","i","n","g">>, <<"S","u","m","m","e","r">>, <<"F","a","l","l">> }

\* get_year_term: the first two blank-separated pieces, when the second is a
\* term
get_year_term(s) ==
    LET pieces == split_ascii_whitespace(s)
    IN  IF Len(pieces) >= 2 /\ pieces[2] \in TERMS
        THEN Some(<<pieces[1], pieces[2]>>)
        ELSE None

IsTermHeader(c) == IsLeaf(c) /\ get_year_term(get_string(c)).some

\* slice::chunk_by(|_, b| !header(b)): a new run starts at every term header
RECURSIVE chunk_by(_)
chunk_by(cs) ==
    IF cs = <<>> THEN <<>>
    ELSE LET rest == chunk_by(Tail(cs))
         IN  IF rest = <<>> THEN << <<Head(cs)>> >>
             ELSE IF ~IsTermHeader(Head(rest)[1])
             THEN << <<Head(cs)>> \o Head(rest) >> \o Tail(rest)
             ELSE << <<Head(cs)>> >> \o rest

KeepSemesterColumn(s) ==
    ~is_qualifier(s) /\ ~matches_breadth(s) /\ ~is_perm_dt(s)

\* s[1..]: the groups of a run, each reduced to its leaf strings without the
\* qualifier, breadth and permanent-date columns
candidate_rows(run) ==
    LET groups == SelectSeq(Tail(run), is_chunks)
    IN  [k \in 1..Len(groups) |->
            SelectSeq(LeafStrings(get_contained(groups[k])), KeepSemesterColumn)]

\* !v[0].ends_with("GPA:") && 6 < v.len() && !v[6].is_empty(), for a row
\* that has a first element
keep_row(v) ==
    /\ ~ends_with(At(v, 0), <<"G","P","A",":">>)
    /\ 6 < Len(v)
    /\ At(v, 6) # <<>>

\* The first pipeline for one run: v[0] panics on a row without elements.
group_run(run) ==
    LET rows == candidate_rows(run)
        yt == get_year_term(get_string(run[1])).val
    IN  IF \E k \in 1..Len(rows) : Len(rows[k]) = 0
        THEN [status |-> "panic", year |-> yt[1], term |-> yt[2], rows |-> <<>>]
        ELSE [status |-> "ok", year |-> yt[1], term |-> yt[2],
              rows |-> SelectSeq(rows, keep_row)]

\* .filter(|s| s.len() >= 2)
long_enough(run) == Len(run) >= 2

\* chunk_by(..).skip(1).filter(..).map(..).collect()
grouped_runs(chunks) ==
    LET runs == SelectSeq(Tail(chunk_by(chunks)), long_enough)
        gs == [k \in 1..Len(runs) |-> group_run(runs[k])]
    IN  IF \E k \in 1..Len(gs) : gs[k].status = "panic"
        THEN [status |-> "panic", grouped |-> <<>>]
        ELSE [status |-> "ok", grouped |-> gs]

\* A run filter that emits the runs without rows too.
has_rows_any(g) == TRUE

\* .filter(|(_, rows)| !rows.is_empty())
has_rows(g) == g.rows # <<>>

\* struct Semester
Semester(year, term, courses) ==
    [year |-> year, term |-> term, is_good_standing |-> TRUE, courses |-> courses]

\* the second pipeline: the assert! on a grade panics
emit_semesters(grouped) ==
    LET gs == SelectSeq(grouped, has_rows)
    IN  IF \E k \in 1..Len(gs) : \E j \in 1..Len(gs[k].rows) :
               ~grade_ok(At(gs[k].rows[j], 6))
        THEN [status |-> "panic", semesters |-> <<>>]
        ELSE [status |-> "ok",
              semesters |->
                [k \in 1..Len(gs) |->
                    Semester(gs[k].year, gs[k].term,
                        [j \in 1..Len(gs[k].rows) |->
                            LET r == gs[k].rows[j]
                            IN  Course(At(r, 1), At(r, 2), At(r, 6))])]]

process_semesters(chunks) ==
    LET g == grouped_runs(chunks)
    IN  IF g.status = "panic" THEN [status |-> "panic", semesters |-> <<>>]
        ELSE emit_semesters(g.grouped)

\* Elements of the program section as they are drawn.
SemSubject == <<"C","M","P","T">>
SemCourseId == <<"1","2","0">>

SemRow(g) == <<TermTag, SemSubject, SemCourseId, Units, Units, Units, g, Units>>

SemesterRowTexts ==
    { SemRow(<<"A","-">>),
      <<TermTag, <<"M","A","T","H">>, <<"1","5","1">>, <<"Q">>, <<"P","e","r","m",".","D","t",":">>, <<"2","0","2","1","-","0","9","-","0","1">>, Units, Units,
        Units, <<"Z","Z">>, Units>>,
      SemRow(<<>>),
      <<<<"T","e","r","m"," ","G","P","A",":">>, Units, Units, Units, Units, Units, Units, Units>>,
      <<TermTag, SemSubject, SemCourseId>>,
      <<>> }

SemesterElems ==
    { Leaf(<<"2","0","2","1"," ","F","a","l","l">>), Leaf(<<"2","0","2","2"," "," ","S","p","r","i","n","g"," ","t","e","r","m">>), Leaf(<<"2","0","2","1"," ","W","i","n","t","e","r">>) }
      \cup { Group([k \in 1..Len(r) |-> Leaf(r[k])]) : r \in SemesterRowTexts }

\* chunks[program_index..end_index]: the "Program:" leaf, then the elements
SemesterInputs ==
    { <<Leaf(PROGRAM_MARKER)>> \o es : es \in SeqsUpTo(SemesterElems, MaxElems) }

SemestersInit ==
    /\ sem \in { [pc |-> "start", chunks |-> cs, grouped |-> <<>>,
                  grouping |-> "run", semesters |-> <<>>, status |-> "run"] :
                    cs \in SemesterInputs }
    /\ simp = Idle /\ comb = Idle /\ xfer = Idle /\ proc = Idle

\* lines 313-336: let grouped = ...collect()
SemestersGroup ==
    /\ sem.pc = "start"
    /\ LET g == grouped_runs(sem.chunks)
       IN  sem' = IF g.status = "panic"
                  THEN [sem EXCEPT !.pc = "done", !.grouping = "panic",
                                   !.status = "panic"]
                  ELSE [sem EXCEPT !.pc = "grouped", !.grouping = "ok",
                                   !.grouped = g.grouped]
    /\ UNCHANGED <<simp, comb, xfer, proc>>

\* lines 338-358: grouped.iter().filter(..).map(..).collect()
SemestersEmit ==
    /\ sem.pc = "grouped"
    /\ LET e == emit_semesters(sem.grouped)
       IN  sem' = [sem EXCEPT !.pc = "done", !.status = e.status,
                              !.semesters = e.semesters]
    /\ UNCHANGED <<simp, comb, xfer, proc>>

SemestersNext == SemestersGroup \/ SemestersEmit

SpecSemesters == SemestersInit /\ [][SemestersNext]_vars

\* Both extractors, each on its own input.
ExtractInit == TransfersInit \/ SemestersInit

ExtractNext == TransfersNext \/ SemestersNext

SpecExtract == ExtractInit /\ [][ExtractNext]_vars

\* ------------------------------------------- properties of the extractors

EndsWithTag(row) ==
    Len(row) > 0 /\ starts_with(row[Len(row)], PAGE_BREAK_TAG)

\* The two rows of a course row of 10 columns followed by a row of 10
\* columns, as they stand after the reduction and the spacer, the course row
\* not split by a page break and holding a recognized grade at offset + 6.
TwoTenColumnRows ==
    /\ xfer.pc = "done"
    /\ Len(xfer.rows0) = 2
    /\ Len(xfer.rows0[1]) = 10
    /\ Len(xfer.rows0[2]) = 10
    /\ ~EndsWithTag(xfer.rows0[1])
    /\ At(xfer.rows0[1], 7) \in POSSIBLE_GRADES

\* C2 (as claimed): the one Transfer of a 10-column course row
\* ["", subject, id, ..] followed by a 10-column school row has the subject
\* and the id of the elements right after the leading "".
C2_AsClaimed ==
    TwoTenColumnRows =>
        /\ xfer.status = "ok"
        /\ Len(xfer.transfers) = 1
        /\ xfer.transfers[1].course.subject = At(xfer.rows0[1], 1)
        /\ xfer.transfers[1].course.id = At(xfer.rows0[1], 2)
        /\ xfer.transfers[1].school = Some(At(xfer.rows0[2], 1))

\* C2: a 10-column course row followed by a 10-column row yields exactly one
\* Transfer, the course read at the offset of 1 that a 10-column row gets
\* (subject at index 2, id at index 3, grade at index 7) and the school the
\* second element of the following row.
C2_TransferRoundTrip ==
    TwoTenColumnRows =>
        /\ xfer.status = "ok"
        /\ xfer.transfers =
              << Transfer(Course(At(xfer.rows0[1], 2), At(xfer.rows0[1], 3),
                                 At(xfer.rows0[1], 7)),
                          Some(At(xfer.rows0[2], 1))) >>

\* C2 witness: the course row ENGR 100 B+ and the row of Acme College gave
\* one Transfer.
C2_Witness ==
    /\ TwoTenColumnRows
    /\ xfer.transfers =
          << Transfer(Course(Subject, CourseId, <<"B","+">>), Some(School)) >>

\* C6: an iteration of the page-break sweep on a row whose last element
\* starts with "SFUSR" drops that element, appends the following row to the
\* row and removes the following row, so the sequence gets one row shorter
\* and the other rows stay; on any other row it changes nothing; and either
\* way it moves on to the next index, so merged content is not examined
\* again.
C6_PageBreakMerge ==
    [][ (xfer.pc = "merge" /\ xfer'.pc = "merge") =>
          LET i == xfer.i
              old == xfer.sources
              new == xfer'.sources
              row == old[i + 1]
          IN  /\ xfer'.i = i + 1
              /\ IF EndsWithTag(row)
                 THEN /\ Len(new) = Len(old) - 1
                      /\ new[i + 1] = SubSeq(row, 1, Len(row) - 1) \o old[i + 2]
                      /\ \A k \in 1..i : new[k] = old[k]
                      /\ \A k \in (i + 2)..Len(new) : new[k] = old[k + 1]
                 ELSE new = old ]_vars

\* C6 witness: of three rows the first two were merged, the merged row ends
\* in a page-break tag of the second and was not merged again.
C6_Witness ==
    /\ xfer.pc = "extract"
    /\ Len(xfer.rows0) = 3
    /\ Len(xfer.sources) = 2
    /\ EndsWithTag(xfer.rows0[1])
    /\ xfer.sources[1] =
          SubSeq(xfer.rows0[1], 1, Len(xfer.rows0[1]) - 1) \o xfer.rows0[2]
    /\ EndsWithTag(xfer.sources[1])

\* The positions of the term headers, and the elements of the run of a
\* header: those after it up to the next header.
HeaderPositions(cs) == { k \in 1..Len(cs) : IsTermHeader(cs[k]) }

RunOf(cs, h) ==
    LET later == { k \in HeaderPositions(cs) : k > h }
        last == IF later = {} THEN Len(cs)
                ELSE (CHOOSE k \in later : \A j \in later : k <= j) - 1
    IN  SubSeq(cs, h + 1, last)

\* A row survives when it does not start with a ...GPA: element, has more
\* than 6 elements and a non-empty element at index 6.
Survives(v) ==
    /\ Len(v) > 6
    /\ ~ends_with(v[1], <<"G","P","A",":">>)
    /\ v[7] # <<>>

SurvivingRows(cs, h) ==
    LET groups == SelectSeq(RunOf(cs, h), is_chunks)
        rows == [k \in 1..Len(groups) |->
                    SelectSeq(LeafStrings(groups[k].v), KeepSemesterColumn)]
    IN  SelectSeq(rows, Survives)

\* One Semester for each header whose run has a surviving row, in the order
\* of the headers.
ExpectedSemesters(cs) ==
    LET hs == { h \in HeaderPositions(cs) : SurvivingRows(cs, h) # <<>> }
        Rank(h) == Cardinality({ g \in hs : g < h }) + 1
    IN  [r \in 1..Cardinality(hs) |->
            LET h == CHOOSE h \in hs : Rank(h) = r
                yt == get_year_term(cs[h].s).val
                rows == SurvivingRows(cs, h)
            IN  Semester(yt[1], yt[2],
                    [j \in 1..Len(rows) |->
                        Course(rows[j][2], rows[j][3], rows[j][7])])]

\* C7: the Semesters returned are, in document order, one for each
\* term-header run with at least one surviving row, with the run's year and
\* term and its surviving rows as courses in order; none has an empty course
\* list and nothing before the first header gives a Semester.
C7_SemesterEmission ==
    (sem.pc = "done" /\ sem.status = "ok") =>
        /\ sem.semesters = ExpectedSemesters(sem.chunks)
        /\ \A k \in 1..Len(sem.semesters) : sem.semesters[k].courses # <<>>

\* C7 witness: a surviving course row before the first header and a header
\* run without rows gave nothing; the one Semester returned is that of the
\* second header, with its one course.
C7_Witness ==
    /\ sem.pc = "done" /\ sem.status = "ok"
    /\ Len(sem.chunks) = 5
    /\ is_chunks(sem.chunks[2])
    /\ Survives(LeafStrings(sem.chunks[2].v))
    /\ HeaderPositions(sem.chunks) = {3, 4}
    /\ sem.semesters =
          << Semester(<<"2","0","2","2">>, <<"S","p","r","i","n","g">>,
                      << Course(SemSubject, SemCourseId, <<"A","-">>) >>) >>

\* The candidate rows of every run after the first.
AllCandidateRows(cs) ==
    Flatten([k \in 1..Len(Tail(chunk_by(cs))) |->
                candidate_rows(Tail(chunk_by(cs))[k])])

\* C9 (as claimed): a candidate row that starts with a ...GPA: element, or
\* has 6 or fewer elements (none at all included), or has an empty element at
\* index 6 is dropped without failing the extraction, and every other row is
\* kept.
C9_RowDropping ==
    sem.pc # "start" =>
        /\ sem.grouping = "ok"
        /\ Flatten([k \in 1..Len(sem.grouped) |-> sem.grouped[k].rows])
              = SelectSeq(AllCandidateRows(sem.chunks), Survives)

\* C1 (as claimed): in either extractor a row whose element at index 6 is
\* not a recognized grade makes the extraction fail.
C1_AsClaimed ==
    /\ (xfer.pc = "done" /\ xfer.status = "ok") =>
          \A k \in 1..Len(xfer.sources) :
              Len(xfer.sources[k]) > 6 => At(xfer.sources[k], 6) \in POSSIBLE_GRADES
    /\ (sem.pc = "done" /\ sem.status = "ok") =>
          \A k \in 1..Len(AllCandidateRows(sem.chunks)) :
              LET v == AllCandidateRows(sem.chunks)[k]
              IN  Len(v) > 6 => At(v, 6) \in POSSIBLE_GRADES

\* C1: the transfer extractor fails when a row it extracts from (every row
\* but the last) holds an unrecognized grade at offset + 6, the semester
\* extractor fails when a surviving row holds one at index 6, and no Course
\* with an unrecognized grade is ever returned.
C1_GradeValidation ==
    /\ (xfer.pc = "done" /\ xfer.status = "ok") =>
          /\ \A k \in 1..(Len(xfer.sources) - 1) :
                LET row == xfer.sources[k]
                IN  At(row, (IF Len(row) = 10 THEN 7 ELSE 6)) \in POSSIBLE_GRADES
          /\ \A k \in 1..Len(xfer.transfers) :
                xfer.transfers[k].course.grade \in POSSIBLE_GRADES
    /\ (sem.pc = "done" /\ sem.status = "ok") =>
          /\ \A h \in HeaderPositions(sem.chunks) :
                \A j \in 1..Len(SurvivingRows(sem.chunks, h)) :
                    SurvivingRows(sem.chunks, h)[j][7] \in POSSIBLE_GRADES
          /\ \A k \in 1..Len(sem.semesters) :
                \A j \in 1..Len(sem.semesters[k].courses) :
                    sem.semesters[k].courses[j].grade \in POSSIBLE_GRADES

\* C1 witness: an extraction has failed on a row with the grade "ZZ" that
\* the filters before it let through.
C1_Witness ==
    \/ /\ xfer.pc = "done" /\ xfer.status = "panic"
       /\ xfer.i < Len(xfer.sources) - 1
       /\ Len(At(xfer.sources, xfer.i)) = 9
       /\ At(At(xfer.sources, xfer.i), 6) = <<"Z","Z">>
    \/ /\ sem.pc = "done" /\ sem.status = "panic" /\ sem.grouping = "ok"
       /\ \E k \in 1..Len(sem.grouped) : \E j \in 1..Len(sem.grouped[k].rows) :
             At(sem.grouped[k].rows[j], 6) = <<"Z","Z">>

\* --------------------------------------------- section locator, assembler

PLAN_MARKER == <<"P","l","a","n">>
END_MARKER == <<"T","O","T","A","L"," ","U","N","I","T","S"," ","P","A","S","S","E","D"," ","B","Y"," ","A","C","A","D","E","M","I","C"," ","G","R","O","U","P">>

\* The student id is read 3 before the end of the sequence.
ID_OFFSET == 3

\* A marker search that found nothing (the Err of find_index).
NotFound == -1

\* find_index: the first position at or after start of the marker leaf
find_index(chunks, start, marker) ==
    LET hits == { k \in start..(Len(chunks) - 1) : At(chunks, k) = Leaf(marker) }
    IN  IF hits = {} THEN NotFound
        ELSE CHOOSE k \in hits : \A j \in hits : k <= j

\* process_plan: the second to last element of the plan group; v.len() - 2
\* panics on a group of fewer than two elements
process_plan(c) ==
    IF is_chunks(c)
    THEN IF Len(c.v) < 2 THEN [status |-> "panic", err |-> "", name |-> <<>>]
         ELSE IF IsLeaf(At(c.v, Len(c.v) - 2))
         THEN [status |-> "ok", err |-> "",
               name |-> get_string(At(c.v, Len(c.v) - 2))]
         ELSE [status |-> "err", err |-> "Bad plan chunk found", name |-> <<>>]
    ELSE [status |-> "err", err |-> "Bad plan chunk found", name |-> <<>>]

\* A transfer section that is left empty when its marker was not found.
transfers_or_empty(chunks, ti, pi) ==
    IF ti = NotFound THEN [status |-> "ok", err |-> "", transfers |-> <<>>]
    ELSE IF ti > pi THEN [status |-> "panic", err |-> "", transfers |-> <<>>]
    ELSE LET r == process_transfers(SubSeq(chunks, ti + 1, pi))
         IN  [status |-> r.status, err |-> "", transfers |-> r.transfers]

\* transfer_index.map(|i| process_transfers(&chunks[i..program_index]))?:
\* the Err of the search is returned here; the slice panics when i is past
\* program_index
transfers_of(chunks, ti, pi) ==
    IF ti = NotFound
    THEN [status |-> "err", err |-> "Transfer marker not found", transfers |-> <<>>]
    ELSE IF ti > pi THEN [status |-> "panic", err |-> "", transfers |-> <<>>]
    ELSE LET r == process_transfers(SubSeq(chunks, ti + 1, pi))
         IN  [status |-> r.status, err |-> "", transfers |-> r.transfers]

PlanGroup == Group(<<Leaf(<<"M","a","j","o","r">>), Leaf(<<"C","M","P","T">>), Leaf(<<"B","S","c">>)>>)

\* A combined sequence: nothing, the plan marker, or the plan marker and the
\* plan group, then marker leaves and groups in any order.
ChunkInputs ==
    { h \o t :
        h \in { <<>>, <<Leaf(PLAN_MARKER)>>, <<Leaf(PLAN_MARKER), PlanGroup>> },
        t \in SeqsUpTo({ Leaf(TRANSFER_MARKER), Leaf(PROGRAM_MARKER),
                         Leaf(END_MARKER), PlanGroup }, MaxTail) }

ChunksInit ==
    /\ proc \in { [pc |-> "plan", chunks |-> cs, plan_index |-> NotFound,
                   transfer_index |-> NotFound, program_index |-> NotFound,
                   end_index |-> NotFound, status |-> "run", err |-> "",
                   id |-> None, plan |-> None, transfers |-> <<>>,
                   semesters |-> <<>>] : cs \in ChunkInputs }
    /\ simp = Idle /\ comb = Idle /\ xfer = Idle /\ sem = Idle

Fail(msg) == [proc EXCEPT !.pc = "done", !.status = "err", !.err = msg]

Panic == [proc EXCEPT !.pc = "done", !.status = "panic"]

\* let plan_index = 1 + find_index(chunks, 0, "Plan", ..)?
ChunksFindPlan ==
    /\ proc.pc = "plan"
    /\ LET r == find_index(proc.chunks, 0, PLAN_MARKER)
       IN  proc' = IF r = NotFound THEN Fail("Plan marker not found")
                   ELSE [proc EXCEPT !.pc = "transfer", !.plan_index = 1 + r]
    /\ UNCHANGED <<simp, comb, xfer, sem>>

\* let transfer_index = find_index(chunks, plan_index, "TRANSFER COURSES", ..)
\* (no ?: the Result is kept)
ChunksFindTransfer ==
    /\ proc.pc = "transfer"
    /\ proc' = [proc EXCEPT !.pc = "program",
                  !.transfer_index =
                      find_index(proc.chunks, proc.plan_index, TRANSFER_MARKER)]
    /\ UNCHANGED <<simp, comb, xfer, sem>>

\* let program_index = find_index(chunks, plan_index, "Program:", ..)?
ChunksFindProgram ==
    /\ proc.pc = "program"
    /\ LET r == find_index(proc.chunks, proc.plan_index, PROGRAM_MARKER)
       IN  proc' = IF r = NotFound THEN Fail("Program marker not found")
                   ELSE [proc EXCEPT !.pc = "end", !.program_index = r]
    /\ UNCHANGED <<simp, comb, xfer, sem>>

\* let end_index = find_index(chunks, program_index, "TOTAL UNITS ..", ..)?
ChunksFindEnd ==
    /\ proc.pc = "end"
    /\ LET r == find_index(proc.chunks, proc.program_index, END_MARKER)
       IN  proc' = IF r = NotFound THEN Fail("End marker not found")
                   ELSE [proc EXCEPT !.pc = "id", !.end_index = r]
    /\ UNCHANGED <<simp, comb, xfer, sem>>

\* let id_index = chunks.len() - 3; id: chunks[id_index].get_string()..?
ChunksReadId ==
    /\ proc.pc = "id"
    /\ proc' = IF Len(proc.chunks) < ID_OFFSET THEN Panic
               ELSE LET c == At(proc.chunks, Len(proc.chunks) - ID_OFFSET)
                    IN  IF IsLeaf(c)
                        THEN [proc EXCEPT !.pc = "planrec",
                                          !.id = Some(get_string(c))]
                        ELSE Fail("Bad student id")
    /\ UNCHANGED <<simp, comb, xfer, sem>>

\* plan: process_plan(&chunks[plan_index])?
ChunksReadPlan ==
    /\ proc.pc = "planrec"
    /\ proc' = IF proc.plan_index >= Len(proc.chunks) THEN Panic
               ELSE LET r == process_plan(At(proc.chunks, proc.plan_index))
                    IN  IF r.status = "ok"
                        THEN [proc EXCEPT !.pc = "transfers", !.plan = Some(r.name)]
                        ELSE IF r.status = "err" THEN Fail(r.err)
                        ELSE Panic
    /\ UNCHANGED <<simp, comb, xfer, sem>>

\* transfers: transfer_index.map(..)?
ChunksTransfers ==
    /\ proc.pc = "transfers"
    /\ LET r == transfers_of(proc.chunks, proc.transfer_index, proc.program_index)
       IN  proc' = IF r.status = "ok"
                   THEN [proc EXCEPT !.pc = "semesters", !.transfers = r.transfers]
                   ELSE IF r.status = "err" THEN Fail(r.err)
                   ELSE Panic
    /\ UNCHANGED <<simp, comb, xfer, sem>>

\* semesters: process_semesters(&chunks[program_index..end_index]); Ok(..)
ChunksSemesters ==
    /\ proc.pc = "semesters"
    /\ LET r == process_semesters(SubSeq(proc.chunks, proc.program_index + 1,
                                         proc.end_index))
       IN  proc' = IF r.status = "ok"
                   THEN [proc EXCEPT !.pc = "done", !.status = "ok",
                                     !.semesters = r.semesters]
                   ELSE Panic
    /\ UNCHANGED <<simp, comb, xfer, sem>>

ChunksNext ==
    \/ ChunksFindPlan
    \/ ChunksFindTransfer
    \/ ChunksFindProgram
    \/ ChunksFindEnd
    \/ ChunksReadId
    \/ ChunksReadPlan
    \/ ChunksTransfers
    \/ ChunksSemesters

SpecChunks == ChunksInit /\ [][ChunksNext]_vars

\* The positions (0-based) of a marker leaf in a sequence.
Positions(cs, marker) == { k \in 0..(Len(cs) - 1) : cs[k + 1] = Leaf(marker) }

Least(S) == CHOOSE k \in S : \A j \in S : k <= j

\* The plan position: one after the first "Plan" leaf.
PlanPosition(cs) == Least(Positions(cs, PLAN_MARKER)) + 1

\* No "TRANSFER COURSES" leaf at or after the plan position.
TransferAbsent(cs) ==
    /\ Positions(cs, PLAN_MARKER) # {}
    /\ \A k \in Positions(cs, TRANSFER_MARKER) : k < PlanPosition(cs)

\* The plan marker, the program marker after it, the end marker after that,
\* a leaf 3 before the end and a plan element with a leaf second to last.
OthersValid(cs) ==
    /\ Positions(cs, PLAN_MARKER) # {}
    /\ \E p \in Positions(cs, PROGRAM_MARKER) :
          /\ p >= PlanPosition(cs)
          /\ \E e \in Positions(cs, END_MARKER) : e >= p
    /\ Len(cs) >= 3
    /\ cs[Len(cs) - 2].tag = "String"
    /\ LET g == cs[PlanPosition(cs) + 1]
       IN  /\ g.tag = "Chunks"
           /\ Len(g.v) >= 2
           /\ g.v[Len(g.v) - 1].tag = "String"

C10_SectionRanges ==
    proc.pc \in {"id", "planrec", "transfers", "semesters"} =>
        /\ proc.plan_index <= proc.program_index
        /\ proc.program_index < proc.end_index
        /\ proc.end_index < Len(proc.chunks)
        /\ Len(proc.chunks) >= ID_OFFSET
        /\ proc.transfer_index # NotFound =>
              proc.transfer_index <= proc.program_index

=============================================================================
